---- MODULE Spec2Model ----
\* Maximum flow over a logistics network (src/task_1.py): the graph with its
\* super source / super sink, the capacity matrix, Edmonds-Karp, and the
\* terminal-store flow table.
EXTENDS Integers, Sequences, FiniteSets, TLC

VARIABLES G, super_source, super_sink, node_indices, capacity, source, sink,
          flow, parent, max_flow, result, table, pc

vars == <<G, super_source, super_sink, node_indices, capacity, source, sink,
          flow, parent, max_flow, result, table, pc>>

\* Largest finite edge weight drawn for an input graph or matrix.
MaxCap == 2

\* The weights drawn: 0 (in a graph: the edge is left out), one unit, and
\* the largest.
Caps == {0, 1, MaxCap}

----------------------------------------------------------------------------
\* Python floats: float("inf") and what arithmetic on it produces.

INF == 1000000
NINF == 0 - INF
NAN == INF + 1

\* a + b
FAdd(a, b) ==
  IF a = NAN \/ b = NAN THEN NAN
  ELSE IF a = INF THEN (IF b = NINF THEN NAN ELSE INF)
  ELSE IF a = NINF THEN (IF b = INF THEN NAN ELSE NINF)
  ELSE IF b = INF \/ b = NINF THEN b
  ELSE a + b

\* -a
FNeg(a) == IF a = NAN THEN NAN ELSE 0 - a

\* a - b
FSub(a, b) == FAdd(a, FNeg(b))

\* a > b and a < b: every comparison with nan is False
FGt(a, b) == a # NAN /\ b # NAN /\ a > b
FLt(a, b) == a # NAN /\ b # NAN /\ a < b

\* min(a, b): the first argument unless the second is smaller
FMin(a, b) == IF FLt(b, a) THEN b ELSE a

----------------------------------------------------------------------------
\* networkx.DiGraph: the nodes in first-insertion order, and the weight of
\* each directed edge.

EmptyGraph == [nodes |-> <<>>, weight |-> [e \in {} |-> 0]]

AddNode(nodes, u) ==
  IF \E k \in 1..Len(nodes) : nodes[k] = u THEN nodes ELSE Append(nodes, u)

\* G.add_edge(u, v, weight=w): inserts the edge or overwrites its weight
add_edge(g, u, v, w) ==
  [nodes  |-> AddNode(AddNode(g.nodes, u), v),
   weight |-> [e \in (DOMAIN g.weight) \cup {<<u, v>>} |->
                 IF e = <<u, v>> THEN w ELSE g.weight[e]]]

RECURSIVE add_weighted_edges_from(_, _)
add_weighted_edges_from(g, edges) ==
  IF edges = <<>> THEN g
  ELSE add_weighted_edges_from(
         add_edge(g, edges[1][1], edges[1][2], edges[1][3]), Tail(edges))

\* The script's node groups: T for a terminal, W for a warehouse, M for a
\* store; "S" and "K" stand for the names of the super source and super sink.
terminals == <<"T1", "T2">>
warehouses == <<"W1", "W2">>
stores == <<"M1", "M2">>

\* The first loop; h is the graph once the edge to the first terminal is in.
RECURSIVE AddSourceEdges(_, _, _)
AddSourceEdges(g, terms, ss) ==
  IF terms = <<>> THEN g
  ELSE CHOOSE out \in
         {AddSourceEdges(h, Tail(terms), ss) :
            h \in {add_edge(g, ss, Head(terms), INF)}} : TRUE

\* The second loop; h is the graph once the edge from the first store is in.
RECURSIVE AddSinkEdges(_, _, _)
AddSinkEdges(g, strs, sk) ==
  IF strs = <<>> THEN g
  ELSE CHOOSE out \in
         {AddSinkEdges(h, Tail(strs), sk) :
            h \in {add_edge(g, Head(strs), sk, INF)}} : TRUE

add_super_source_sink(g, terms, strs, ss, sk) ==
  AddSinkEdges(AddSourceEdges(g, terms, ss), strs, sk)

\* {node: i for i, node in enumerate(nodes)}
NodeIndices(nodes) ==
  [u \in {nodes[k] : k \in 1..Len(nodes)} |->
     (CHOOSE k \in 1..Len(nodes) : nodes[k] = u) - 1]

build_capacity_matrix(g, idx) ==
  LET n == Cardinality(DOMAIN idx)
      At(i, j) == {e \in DOMAIN g.weight : idx[e[1]] = i /\ idx[e[2]] = j}
  IN  [i \in 0..(n - 1) |-> [j \in 0..(n - 1) |->
         IF At(i, j) = {} THEN 0 ELSE g.weight[CHOOSE e \in At(i, j) : TRUE]]]

----------------------------------------------------------------------------
\* Edmonds-Karp.

Size(cap) == Cardinality(DOMAIN cap)

\* Residual with the flow already pushed forgotten.
Residual_IgnoresFlow(cap, fl, u, v) == cap[u][v]

\* capacity[u][v] - flow[u][v]
Residual(cap, fl, u, v) == FSub(cap[u][v], fl[u][v])

\* The for-loop of bfs over v = vv .. n-1 for the dequeued node u.
RECURSIVE BfsScan(_, _, _, _, _, _, _, _)
BfsScan(cap, fl, snk, u, vv, queue, visited, par) ==
  IF vv >= Size(cap)
  THEN [found |-> FALSE, queue |-> queue, visited |-> visited, parent |-> par]
  ELSE IF ~visited[vv] /\ FGt(Residual(cap, fl, u, vv), 0)
  THEN LET par2 == [par EXCEPT ![vv] = u]
           vis2 == [visited EXCEPT ![vv] = TRUE]
       IN  IF vv = snk
           THEN [found |-> TRUE, queue |-> queue, visited |-> vis2,
                 parent |-> par2]
           ELSE BfsScan(cap, fl, snk, u, vv + 1, Append(queue, vv), vis2, par2)
  ELSE BfsScan(cap, fl, snk, u, vv + 1, queue, visited, par)

\* Dequeue taking the newest node, queue.pop(): a depth-first search.
Dequeue_Pop(queue) ==
  [u |-> queue[Len(queue)], rest |-> SubSeq(queue, 1, Len(queue) - 1)]

\* The next node to expand: queue.popleft()
Dequeue(queue) == [u |-> Head(queue), rest |-> Tail(queue)]

\* The while-loop of bfs; r is what one pass of the for-loop leaves.
RECURSIVE BfsLoop(_, _, _, _, _, _)
BfsLoop(cap, fl, snk, queue, visited, par) ==
  IF queue = <<>> THEN [found |-> FALSE, parent |-> par]
  ELSE LET d == Dequeue(queue)
       IN  CHOOSE out \in
             {IF r.found THEN [found |-> TRUE, parent |-> r.parent]
              ELSE BfsLoop(cap, fl, snk, r.queue, r.visited, r.parent) :
                r \in {BfsScan(cap, fl, snk, d.u, 0, d.rest, visited, par)}} :
             TRUE

bfs(cap, fl, src, snk, par) ==
  BfsLoop(cap, fl, snk, <<src>>,
          [v \in 0..(Size(cap) - 1) |-> v = src], par)

\* The first inner loop of edmonds_karp: the bottleneck of the path.
RECURSIVE PathFlowWalk(_, _, _, _, _, _)
PathFlowWalk(cap, fl, src, par, s, pf) ==
  IF s = src THEN pf
  ELSE PathFlowWalk(cap, fl, src, par, par[s],
                    FMin(pf, Residual(cap, fl, par[s], s)))

\* PathFlow looking at the edge into the sink alone.
PathFlow_SinkEdgeOnly(cap, fl, src, snk, par) ==
  Residual(cap, fl, par[snk], snk)

\* PathFlow with the minimum started at 0 instead of float("inf").
PathFlow_StartsAtZero(cap, fl, src, snk, par) ==
  PathFlowWalk(cap, fl, src, par, snk, 0)

PathFlow(cap, fl, src, snk, par) == PathFlowWalk(cap, fl, src, par, snk, INF)

\* PushEdge without flow[v][u] -= path_flow.
PushEdge_NoReverse(fl, u, v, pf) == [fl EXCEPT ![u][v] = FAdd(@, pf)]

\* One edge of the second inner loop.
PushEdge(fl, u, v, pf) ==
  LET f1 == [fl EXCEPT ![u][v] = FAdd(@, pf)]
  IN  [f1 EXCEPT ![v][u] = FSub(@, pf)]

\* The second inner loop of edmonds_karp: push pf along the path.
RECURSIVE AugmentWalk(_, _, _, _, _)
AugmentWalk(fl, src, par, v, pf) ==
  IF v = src THEN fl
  ELSE AugmentWalk(PushEdge(fl, par[v], v, pf), src, par, par[v], pf)

\* AugmentPath starting at parent[sink]: the edge into the sink is left out.
AugmentPath_SkipsSinkEdge(fl, src, snk, par, pf) ==
  AugmentWalk(fl, src, par, par[snk], pf)

AugmentPath(fl, src, snk, par, pf) == AugmentWalk(fl, src, par, snk, pf)

----------------------------------------------------------------------------
\* print_flow_table.

RECURSIVE TotalFlowOver(_, _, _, _, _)
TotalFlowOver(fl, idx, term, store, whs) ==
  IF whs = <<>> THEN 0
  ELSE LET w == idx[Head(whs)]
           rest == TotalFlowOver(fl, idx, term, store, Tail(whs))
       IN  IF FGt(fl[w][idx[store]], 0) /\ FGt(fl[idx[term]][w], 0)
           THEN FAdd(FMin(fl[w][idx[store]], fl[idx[term]][w]), rest)
           ELSE rest

\* TotalFlow crediting every terminal with all that reaches the store.
RECURSIVE TotalFlow_AnyTerminalOver(_, _, _, _)
TotalFlow_AnyTerminalOver(fl, idx, store, whs) ==
  IF whs = <<>> THEN 0
  ELSE LET w == idx[Head(whs)]
           rest == TotalFlow_AnyTerminalOver(fl, idx, store, Tail(whs))
       IN  IF FGt(fl[w][idx[store]], 0) THEN FAdd(fl[w][idx[store]], rest)
           ELSE rest

TotalFlow_AnyTerminal(fl, idx, term, store) ==
  TotalFlow_AnyTerminalOver(fl, idx, store, warehouses)

TotalFlow(fl, idx, term, store) == TotalFlowOver(fl, idx, term, store, warehouses)

\* The (terminal, store) pairs in the order of the two outer loops.
TablePairs ==
  [k \in 1..(Len(terminals) * Len(stores)) |->
     <<terminals[((k - 1) \div Len(stores)) + 1],
       stores[((k - 1) % Len(stores)) + 1]>>]

RECURSIVE TableRows(_, _, _)
TableRows(fl, idx, k) ==
  IF k > Len(TablePairs) THEN <<>>
  ELSE LET t == TotalFlow(fl, idx, TablePairs[k][1], TablePairs[k][2])
       IN  (IF FGt(t, 0)
            THEN <<[term |-> TablePairs[k][1], store |-> TablePairs[k][2],
                    total |-> t]>>
            ELSE <<>>) \o TableRows(fl, idx, k + 1)

print_flow_table(fl, idx) == TableRows(fl, idx, 1)

----------------------------------------------------------------------------
\* Inputs.

\* The candidate edges of the logistics graph, in the order they are added.
EdgeSlots ==
  << <<"T1", "W1">>, <<"T1", "W2">>, <<"T2", "W1">>, <<"W1", "M1">>,
     <<"W1", "M2">>, <<"W2", "M1">>, <<"W2", "M2">> >>

\* The edge list of a graph: slot k carries weight w[k], and is left out when
\* w[k] is below lo.
RECURSIVE EdgeList(_, _, _)
EdgeList(w, lo, k) ==
  IF k > Len(EdgeSlots) THEN <<>>
  ELSE (IF w[k] >= lo THEN << <<EdgeSlots[k][1], EdgeSlots[k][2], w[k]>> >>
        ELSE <<>>) \o EdgeList(w, lo, k + 1)

\* Matrices handed to edmonds_karp directly: the entries that may be non-zero.
SlotsA == {<<0, 1>>, <<0, 2>>, <<1, 2>>, <<2, 1>>, <<1, 4>>, <<2, 3>>, <<3, 4>>}
SlotsC == {<<0, 1>>, <<0, 2>>, <<1, 0>>, <<1, 2>>, <<2, 0>>, <<2, 1>>}
SlotsB == {<<0, 1>>, <<0, 2>>, <<1, 3>>, <<1, 4>>, <<2, 3>>, <<3, 5>>, <<4, 5>>}

Matrix(n, slots, w) ==
  [i \in 0..(n - 1) |-> [j \in 0..(n - 1) |->
     IF <<i, j>> \in slots THEN w[<<i, j>>] ELSE 0]]

Unset == <<>>

\* The script up to line 190: a graph of positive weights, names that are new.
InitScript ==
  /\ \E w \in [1..Len(EdgeSlots) -> Caps] :
       G = add_weighted_edges_from(EmptyGraph, EdgeList(w, 1, 1))
  /\ super_source = "S"
  /\ super_sink = "K"
  /\ node_indices = Unset
  /\ capacity = Unset
  /\ source = 0
  /\ sink = 0
  /\ flow = Unset
  /\ parent = Unset
  /\ max_flow = 0
  /\ result = "none"
  /\ table = <<>>
  /\ pc = "start"

\* edmonds_karp called on a matrix of non-negative integers.
InitDirect ==
  /\ G = EmptyGraph
  /\ super_source = "S"
  /\ super_sink = "K"
  /\ node_indices = Unset
  /\ \/ /\ \E w \in [SlotsA -> Caps] : capacity = Matrix(5, SlotsA, w)
        /\ source = 0
        /\ sink = 4
     \/ /\ \E w \in [SlotsC -> Caps] : capacity = Matrix(3, SlotsC, w)
        /\ source \in 0..2
        /\ sink \in 0..2
     \/ /\ \E w \in [SlotsB -> Caps] : capacity = Matrix(6, SlotsB, w)
        /\ source = 0
        /\ sink = 5
  /\ flow = Unset
  /\ parent = Unset
  /\ max_flow = 0
  /\ result = "none"
  /\ table = <<>>
  /\ pc = "call"

\* The script on any caller input: weights that are zero or negative, and
\* super source / super sink names that may be names of nodes of the graph.
InitAnyInput ==
  /\ \E w \in [1..Len(EdgeSlots) -> (0 - 1)..1] :
       G = add_weighted_edges_from(EmptyGraph, EdgeList(w, 0 - 1, 1))
  /\ \E p \in {<<"S", "K">>, <<"W1", "K">>, <<"S", "M1">>, <<"S", "T1">>,
               <<"S", "S">>} :
       super_source = p[1] /\ super_sink = p[2]
  /\ node_indices = Unset
  /\ capacity = Unset
  /\ source = 0
  /\ sink = 0
  /\ flow = Unset
  /\ parent = Unset
  /\ max_flow = 0
  /\ result = "none"
  /\ table = <<>>
  /\ pc = "start"

Init == InitScript \/ InitDirect

----------------------------------------------------------------------------
\* Steps.

\* line 192
AddSuperSourceSink ==
  /\ pc = "start"
  /\ G' = add_super_source_sink(G, terminals, stores, super_source, super_sink)
  /\ pc' = "augmented"
  /\ UNCHANGED <<super_source, super_sink, node_indices, capacity, source,
                 sink, flow, parent, max_flow, result, table>>

\* lines 194-199
BuildCapacityMatrix ==
  /\ pc = "augmented"
  /\ \E idx \in {NodeIndices(G.nodes)} :
       /\ node_indices' = idx
       /\ capacity' = build_capacity_matrix(G, idx)
       /\ source' = idx[super_source]
       /\ sink' = idx[super_sink]
  /\ pc' = "call"
  /\ UNCHANGED <<G, super_source, super_sink, flow, parent, max_flow, result,
                 table>>

\* edmonds_karp, lines 96-99
EdmondsKarpCall ==
  /\ pc = "call"
  /\ flow' = [i \in DOMAIN capacity |-> [j \in DOMAIN capacity |-> 0]]
  /\ parent' = [i \in DOMAIN capacity |-> 0 - 1]
  /\ max_flow' = 0
  /\ pc' = "bfs"
  /\ UNCHANGED <<G, super_source, super_sink, node_indices, capacity, source,
                 sink, result, table>>

\* edmonds_karp, line 101 (the loop test) and line 115 (the return)
Bfs ==
  /\ pc = "bfs"
  /\ \E r \in {bfs(capacity, flow, source, sink, parent)} :
       /\ parent' = r.parent
       /\ pc' = IF r.found THEN "augment" ELSE "done"
       /\ result' = IF r.found THEN result ELSE "returned"
  /\ UNCHANGED <<G, super_source, super_sink, node_indices, capacity, source,
                 sink, flow, max_flow, table>>

\* edmonds_karp, lines 102-113
Augment ==
  /\ pc = "augment"
  /\ \E path_flow \in {PathFlow(capacity, flow, source, sink, parent)} :
       /\ flow' = AugmentPath(flow, source, sink, parent, path_flow)
       /\ max_flow' = FAdd(max_flow, path_flow)
  /\ pc' = "bfs"
  /\ UNCHANGED <<G, super_source, super_sink, node_indices, capacity, source,
                 sink, parent, result, table>>

\* line 204: a warehouse that is no node of the graph has no index
PrintFlowTable ==
  /\ pc = "done"
  /\ node_indices # Unset
  /\ IF \A k \in 1..Len(warehouses) : warehouses[k] \in DOMAIN node_indices
     THEN /\ table' = print_flow_table(flow, node_indices)
          /\ result' = "printed"
     ELSE /\ table' = <<>>
          /\ result' = "KeyError"
  /\ pc' = "end"
  /\ UNCHANGED <<G, super_source, super_sink, node_indices, capacity, source,
                 sink, flow, parent, max_flow>>

Next ==
  \/ AddSuperSourceSink
  \/ BuildCapacityMatrix
  \/ EdmondsKarpCall
  \/ Bfs
  \/ Augment
  \/ PrintFlowTable

Spec == Init /\ [][Next]_vars

\* The program is one thread that always takes its next step.
FairSpec == InitScript /\ [][Next]_vars /\ WF_vars(Next)

SpecAnyInput == InitAnyInput /\ [][Next]_vars

----------------------------------------------------------------------------
\* Properties.

IsFinite(x) == x # INF /\ x # NINF /\ x # NAN

\* a <= b, a >= b and a == b on Python numbers
FLe(a, b) == a # NAN /\ b # NAN /\ a <= b
FGe(a, b) == a # NAN /\ b # NAN /\ a >= b
FEq(a, b) == a # NAN /\ b # NAN /\ a = b

Indices == DOMAIN capacity

FlowDefined == pc \in {"bfs", "augment", "done", "end"}

Returned == pc \in {"done", "end"}

\* The capacity from side to its complement, summed entry by entry.
RECURSIVE CutSum(_, _, _)
CutSum(cap, side, k) ==
  LET n == Size(cap)
      i == k \div n
      j == k % n
  IN  IF k >= n * n THEN 0
      ELSE (IF i \in side /\ j \notin side THEN cap[i][j] ELSE 0)
           + CutSum(cap, side, k + 1)

CutCapacities(cap, s, t) ==
  {CutSum(cap, side \cup {s}, 0) : side \in SUBSET ((DOMAIN cap) \ {s, t})}

MinCut(cap, s, t) ==
  CHOOSE m \in CutCapacities(cap, s, t) :
    \A x \in CutCapacities(cap, s, t) : m <= x

IntegerMatrix(cap) ==
  \A i, j \in DOMAIN cap : IsFinite(cap[i][j]) /\ cap[i][j] >= 0

\* C1: for a matrix of non-negative integers and source # sink, the max_flow
\* edmonds_karp returns equals the minimum capacity over all cuts that
\* separate source from sink.
C1_MaxFlowIsMinCut ==
  (Returned /\ source # sink /\ IntegerMatrix(capacity))
    => max_flow = MinCut(capacity, source, sink)

\* A returned flow of 2 or more over a 6-node matrix whose second path undoes
\* flow on the edge 1 -> 3.
C1_Witness ==
  /\ Returned /\ source # sink /\ IntegerMatrix(capacity)
  /\ Size(capacity) = 6
  /\ max_flow >= 2
  /\ flow[1][3] < flow[0][1]
  /\ flow[2][3] > 0

\* C2: from the start of edmonds_karp and after every augmentation, wherever
\* capacity[i][j] is finite, flow[i][j] <= capacity[i][j] and
\* flow[i][j] >= -capacity[j][i].
C2_CapacityRespect ==
  FlowDefined =>
    \A i, j \in Indices :
      IsFinite(capacity[i][j]) =>
        /\ FLe(flow[i][j], capacity[i][j])
        /\ FGe(flow[i][j], FNeg(capacity[j][i]))

\* After an augmentation: an edge filled to its finite capacity, and flow on
\* an unbounded edge.
C2_Witness ==
  /\ pc = "bfs"
  /\ \E i, j \in Indices : capacity[i][j] > 0 /\ flow[i][j] = capacity[i][j]
  /\ \E i, j \in Indices : capacity[i][j] = INF /\ flow[i][j] > 0

\* C3: from the start of edmonds_karp and after every augmentation of a whole
\* path, flow[i][j] == -flow[j][i] for all i, j.
C3_SkewSymmetry ==
  FlowDefined => \A i, j \in Indices : FEq(flow[i][j], FNeg(flow[j][i]))

\* After a second augmentation.
C3_Witness ==
  /\ pc = "bfs"
  /\ max_flow >= 2
  /\ \E i, j \in Indices : flow[i][j] = 1

\* The sum of row v of the flow matrix.
RECURSIVE RowSum(_, _, _)
RowSum(fl, v, j) ==
  IF j >= Size(fl) THEN 0 ELSE FAdd(fl[v][j], RowSum(fl, v, j + 1))

\* C4: when edmonds_karp returns, every node other than source and sink has
\* net flow 0.
C4_FlowConservation ==
  Returned =>
    \A v \in Indices \ {source, sink} : FEq(RowSum(flow, v, 0), 0)

\* A node other than source and sink that flow passes through.
C4_Witness ==
  /\ Returned
  /\ \E v \in Indices \ {source, sink} :
       \E i, j \in Indices : flow[i][v] > 0 /\ flow[v][j] > 0

\* The nodes reached from the nodes of `from` along edges in `edges`.
RECURSIVE Closure(_, _)
Closure(from, edges) ==
  LET more == from \cup {e[2] : e \in {d \in edges : d[1] \in from}}
  IN  IF more = from THEN from ELSE Closure(more, edges)

UnboundedEdges(cap) == {e \in (DOMAIN cap) \X (DOMAIN cap) : cap[e[1]][e[2]] = INF}

\* The matrices of C5: non-negative integers or unbounded, unbounded only on
\* edges leaving the source or entering the sink, and no path from source to
\* sink made of unbounded edges alone.
VirtualTerminalMatrix(cap, s, t) ==
  /\ \A i, j \in DOMAIN cap :
       \/ IsFinite(cap[i][j]) /\ cap[i][j] >= 0
       \/ cap[i][j] = INF /\ (i = s \/ j = t)
  /\ t \notin Closure({s}, UnboundedEdges(cap))

\* C5: on such a matrix the loop of edmonds_karp stops after finitely many
\* augmentations and edmonds_karp returns.
C5_Terminates ==
  (pc = "call" /\ VirtualTerminalMatrix(capacity, source, sink))
    ~> (pc = "done" /\ result = "returned")

\* Returned from such a matrix after pushing flow through both kinds of edge.
C5_Witness ==
  /\ pc = "done" /\ result = "returned"
  /\ VirtualTerminalMatrix(capacity, source, sink)
  /\ UnboundedEdges(capacity) # {}
  /\ max_flow >= 3

\* C6: edmonds_karp with source = sink ends in InvalidEndpoints instead of
\* returning a result, with the capacity matrix as it was.
C6_InvalidEndpoints ==
  (Returned /\ source = sink) => result = "InvalidEndpoints"

\* An edge of the graph with a finite weight that is zero or negative.
NonPositiveEdge(g) ==
  \E e \in DOMAIN g.weight : IsFinite(g.weight[e]) /\ g.weight[e] <= 0

\* C7: a graph with a zero or negative finite weight is rejected when the
\* capacity matrix is built: no matrix is returned for it.
C7_RejectsNonPositive ==
  NonPositiveEdge(G) => (capacity = Unset /\ pc \in {"start", "augmented"})

HasNode(g, u) == \E k \in 1..Len(g.nodes) : g.nodes[k] = u

NameTaken(g, ss, sk) == HasNode(g, ss) \/ HasNode(g, sk)

VirtualEdgesAdded(g, ss, sk) ==
  /\ \A k \in 1..Len(terminals) :
       <<ss, terminals[k]>> \in DOMAIN g.weight /\ g.weight[<<ss, terminals[k]>>] = INF
  /\ \A k \in 1..Len(stores) :
       <<stores[k], sk>> \in DOMAIN g.weight /\ g.weight[<<stores[k], sk>>] = INF

\* C8: add_super_source_sink with a super source or super sink name that is
\* already a node fails with DuplicateNodeName and leaves the graph as it
\* was; with new names it adds every source-terminal and store-sink edge.
C8_DuplicateNameRejected ==
  [][pc = "start" =>
       IF NameTaken(G, super_source, super_sink)
       THEN G' = G /\ result' = "DuplicateNodeName"
       ELSE VirtualEdgesAdded(G', super_source, super_sink)]_vars

GraphEdges(g) == DOMAIN g.weight

\* A terminal from which no directed path of the graph reaches a store.
Disconnected(g, term) ==
  \A k \in 1..Len(stores) : stores[k] \notin Closure({term}, GraphEdges(g))

\* C9: in the augmented network, a terminal with no directed path to any
\* store carries no flow to any warehouse when edmonds_karp has returned, and
\* the flow table has no line for it.
C9_DisconnectedEntry ==
  (Returned /\ node_indices # Unset) =>
    \A t \in 1..Len(terminals) :
      Disconnected(G, terminals[t]) =>
        /\ \A w \in 1..Len(warehouses) :
             warehouses[w] \in DOMAIN node_indices =>
               FLe(flow[node_indices[terminals[t]]][node_indices[warehouses[w]]], 0)
        /\ \A r \in 1..Len(table) : table[r].term # terminals[t]

\* The table is printed, with lines for T1 and none for T2, which has an edge
\* into a warehouse and no path to a store.
C9_Witness ==
  /\ pc = "end" /\ result = "printed"
  /\ Disconnected(G, "T2")
  /\ \E e \in GraphEdges(G) : e[1] = "T2"
  /\ table # <<>>

\* The nodes from v back along parent[] to src: <<v, parent[v], ..., src>>,
\* or <<>> when src is not reached within fuel steps.
RECURSIVE ParentChain(_, _, _, _)
ParentChain(par, src, v, fuel) ==
  IF v = src THEN <<v>>
  ELSE IF fuel = 0 \/ v \notin DOMAIN par THEN <<>>
  ELSE LET rest == ParentChain(par, src, par[v], fuel - 1)
       IN  IF rest = <<>> THEN <<>> ELSE <<v>> \o rest

ResidualEdges(cap, fl) ==
  {e \in (DOMAIN cap) \X (DOMAIN cap) : FGt(FSub(cap[e[1]][e[2]], fl[e[1]][e[2]]), 0)}

\* The nodes within k edges of src.
RECURSIVE Within(_, _, _)
Within(edges, src, k) ==
  IF k = 0 THEN {src}
  ELSE LET near == Within(edges, src, k - 1)
       IN  near \cup {e[2] : e \in {d \in edges : d[1] \in near}}

\* C10: whenever bfs returns True, following parent[] from sink reaches
\* source along edges of positive residual capacity, and no path of the
\* residual graph from source to sink has fewer edges.
C10_ShortestAugmentingPath ==
  pc = "augment" =>
    LET chain == ParentChain(parent, source, sink, Size(capacity))
        hops == Len(chain) - 1
        edges == ResidualEdges(capacity, flow)
    IN  /\ chain # <<>>
        /\ hops >= 1
        /\ \A k \in 1..hops :
             FGt(FSub(capacity[chain[k + 1]][chain[k]], flow[chain[k + 1]][chain[k]]), 0)
        /\ sink \in Within(edges, source, hops)
        /\ sink \notin Within(edges, source, hops - 1)

\* A later iteration: flow has been pushed, parent[] holds entries of earlier
\* searches, and the path found goes back along an edge that carries flow.
C10_Witness ==
  /\ pc = "augment"
  /\ max_flow > 0
  /\ LET chain == ParentChain(parent, source, sink, Size(capacity))
     IN  \E k \in 1..(Len(chain) - 1) : capacity[chain[k + 1]][chain[k]] = 0

====
